---- MODULE Spec2Model ----
(***************************************************************************)
(* Model of downloader.py: the retrieval-with-fallback orchestration       *)
(* (fetch_video, fetch_photos) and the normalization pipeline              *)
(* (get_video_dimensions, convert_to_standard_mp4, check_h264_codec).      *)
(*                                                                         *)
(* One action is one await-to-await stretch of a coroutine: the network    *)
(* reply the await receives is the action's input, and everything the      *)
(* code does before its next await (including the blocking ffprobe/ffmpeg  *)
(* subprocess calls) happens in that action.                               *)
(*                                                                         *)
(* Encodings: Optional[T] is the tuple <<>> (None) or <<x>>; a URL and a   *)
(* caption are sequences of string tokens; bytes are [tag, len].           *)
(***************************************************************************)
EXTENDS Integers, Sequences, FiniteSets, TLC

\* ---------------------------------------------------------------- bounds
MaxIdLen == 1        \* longest digit run in an input URL
MaxDim == 2          \* probed width/height range over 1..MaxDim
MaxImages == 2       \* longest images array in a TikWM reply
MaxHops == 2         \* redirects the client follows before it gives up

\* ------------------------------------------------------ program constants
MinFallbackLen == 1000     \* len(response.content) > 1000
HttpOk == 200              \* status_code == 200
TikwmOkCode == 0           \* data.get('code') == 0

\* ------------------------------------------------------------ Python bits
None == <<>>
Some(x) == <<x>>

\* truthiness of an Optional[str]: None and "" are falsy
Truthy(o) == o # None /\ o[1] # ""

\* a or b
PyOr(a, b) == IF Truthy(a) THEN a ELSE b

\* dict.get(key, default) on a field held as an Optional
DictGet(field, default) == IF field = None THEN default ELSE field[1]

\* BytesIO(b)
BytesIO(b) == [buf |-> b]

\* ------------------------------------------------------------------ URLs
Digits == {"7"}

IsDigit(t) == t \in Digits

UrlPrefixes ==
  { <<"/", "video", "/">>,
    <<"/", "v", "/">>,
    <<"video", "/">>,
    <<"/", "x", "/">> }

DigitRuns == UNION { [1..n -> Digits] : n \in 0..MaxIdLen }

Urls == { p \o d : p \in UrlPrefixes, d \in DigitRuns }

\* the patterns list of extract_video_id, in its order; each is a literal
\* prefix followed by (\d+)
patterns ==
  << <<"/", "video", "/">>,
     <<"/", "v", "/">>,
     <<"video", "/">> >>

\* the literal part of pat matches url at position i and a digit follows
MatchAt(pat, url, i) ==
  /\ i + Len(pat) <= Len(url)
  /\ \A k \in 1..Len(pat) : url[i + k - 1] = pat[k]
  /\ IsDigit(url[i + Len(pat)])

\* (\d+) is greedy: the maximal digit run starting at position j
RECURSIVE DigitRunFrom(_, _)
DigitRunFrom(url, j) ==
  IF j <= Len(url) /\ IsDigit(url[j])
  THEN <<url[j]>> \o DigitRunFrom(url, j + 1)
  ELSE <<>>

\* re.search(pattern, url): leftmost match, group(1)
re_search(pat, url) ==
  LET hits == { i \in 1..Len(url) : MatchAt(pat, url, i) }
  IN IF hits = {} THEN None
     ELSE LET i == CHOOSE h \in hits : \A g \in hits : h <= g
          IN Some(DigitRunFrom(url, i + Len(pat)))

RECURSIVE FirstMatch(_, _)
FirstMatch(k, url) ==
  IF k > Len(patterns) THEN None
  ELSE LET m == re_search(patterns[k], url)
       IN IF m # None THEN m ELSE FirstMatch(k + 1, url)

extract_video_id(url) == FirstMatch(1, url)

\* resolve_redirect: the final URL of the GET, or the input on any exception
\* variant for C12: a failed GET yields no URL at all
resolve_redirect_drops_input(url, reply) == reply.url

resolve_redirect(url, reply) ==
  IF reply.raised THEN url ELSE reply.url

ResolveReplies ==
  {[raised |-> TRUE, url |-> <<>>]} \cup {[raised |-> FALSE, url |-> u] : u \in Urls}

\* --------------------------------------------------------------- bytes
\* a byte string: tag names where the bytes come from, len is len(b)
Bytes(tag, n) == [tag |-> tag, len |-> n]

\* bot.py line 105: the largest video the bot uploads, in bytes
max_size == 50 * 1024 * 1024

BodyLens == {0, MinFallbackLen, MinFallbackLen + 1, MinFallbackLen + 500}

\* lengths a transcoder that exited 0 may have written
TranscodedLens == {MinFallbackLen + 1, max_size + 1}

\* ----------------------------------------------------- TikWM JSON replies
HdUrl == "hdplay_url"
PlayUrl == "play_url"
ImgUrl(i) == <<"img", i>>

\* the images field: absent, a non-list JSON value, or a list of URLs
ImagesValues ==
  {[shape |-> "absent", items |-> <<>>], [shape |-> "string", items |-> <<>>]}
    \cup {[shape |-> "list", items |-> l] :
            l \in { [i \in 1..n |-> ImgUrl(i)] : n \in 0..MaxImages }}

EmptyDict ==
  [shape |-> "object", hdplay |-> None, play |-> None,
   images |-> [shape |-> "absent", items |-> <<>>], title |-> None]

\* the value under 'data': absent, JSON null, or an object
DataValues ==
  {[EmptyDict EXCEPT !.shape = "absent"], [EmptyDict EXCEPT !.shape = "null"]}
    \cup [shape : {"object"},
          hdplay : {None, Some(""), Some(HdUrl)},
          play : {None, Some(PlayUrl)},
          images : ImagesValues,
          title : {None, Some("a title")}]

\* the response body: not JSON, JSON that is no object, or an object
GarbageBody == [shape |-> "garbage", code |-> None, data |-> [EmptyDict EXCEPT !.shape = "absent"]]

Bodies ==
  {GarbageBody, [GarbageBody EXCEPT !.shape = "list"]}
    \cup {[GarbageBody EXCEPT !.shape = "object", !.code = c] : c \in {None, Some(-1)}}
    \cup {[shape |-> "object", code |-> Some(TikwmOkCode), data |-> d] : d \in DataValues}

\* what the POST yields: an exception (timeout, connection error) or a response
TikwmReplies ==
  {[raised |-> TRUE, status |-> 0, body |-> GarbageBody],
   [raised |-> FALSE, status |-> 500, body |-> GarbageBody]}
    \cup {[raised |-> FALSE, status |-> HttpOk, body |-> b] : b \in Bodies}

\* tikwm_api_request: the parsed dict when status is 200 and code is 0, else
\* None; only json.JSONDecodeError is caught, so the POST's exception and the
\* AttributeError of .get on a non-object propagate
tikwm_api_request(reply) ==
  IF reply.raised THEN [raised |-> TRUE, ret |-> None]
  ELSE IF reply.status # HttpOk THEN [raised |-> FALSE, ret |-> None]
  ELSE IF reply.body.shape = "garbage" THEN [raised |-> FALSE, ret |-> None]
  ELSE IF reply.body.shape # "object" THEN [raised |-> TRUE, ret |-> None]
  ELSE IF reply.body.code = Some(TikwmOkCode) THEN [raised |-> FALSE, ret |-> Some(reply.body)]
  ELSE [raised |-> FALSE, ret |-> None]

\* tikwm_data.get('data', {}): the empty dict when the key is absent;
\* a later .get on JSON null raises AttributeError
data_of(tikwm_data) ==
  IF tikwm_data.data.shape = "absent" THEN EmptyDict ELSE tikwm_data.data

\* variant for C9: the preference reversed, play or hdplay
select_video_url_wrong(tikwm_data) ==
  PyOr(data_of(tikwm_data).play, data_of(tikwm_data).hdplay)

\* line 181: hdplay or play
select_video_url(tikwm_data) ==
  PyOr(data_of(tikwm_data).hdplay, data_of(tikwm_data).play)

\* "HD" if hdplay else "Standard"
quality_of(tikwm_data) ==
  IF Truthy(data_of(tikwm_data).hdplay) THEN "HD" ELSE "Standard"

\* f"Downloaded via TikWM ({quality}) - {title}"
tikwm_caption(tikwm_data) ==
  <<"Downloaded via TikWM (", quality_of(tikwm_data), ") - ",
    DictGet(data_of(tikwm_data).title, "TikTok Video")>>

\* f"Downloaded via TikTok API (ID: {video_id})"
api_caption(video_id) ==
  <<"Downloaded via TikTok API (ID: ">>
    \o (IF video_id = None THEN <<"None">> ELSE video_id[1]) \o <<")">>

\* f"Downloaded TikTok Photo Post - {title}"
photo_caption(tikwm_data) ==
  <<"Downloaded TikTok Photo Post - ",
    DictGet(data_of(tikwm_data).title, "TikTok Photos")>>

\* the fallback's acceptance test
api_accepts(status, content) ==
  status = HttpOk /\ content.len > MinFallbackLen

\* ------------------------------------------------------- normalization
PortraitVf == "crop=ih*9/16:ih:(iw-ih*9/16)/2:0,scale=720:1280,setsar=1"
LandscapeVf == "crop=iw:iw*9/16:0:(ih-iw*9/16)/2,scale=1280:720,setsar=1"

Dims == {None} \cup {Some(n) : n \in 1..MaxDim}

\* What the surroundings do during one convert_to_standard_mp4 call:
\*   probe_scratch  the scratch file of get_video_dimensions: created and
\*                  written, or OSError (no temp dir, disk full)
\*   probe_ok       ffprobe exited 0 with parseable streams[0].width/height
\*   width, height  the two values read (None: JSON null)
\*   conv_scratch   the two scratch files of convert_to_standard_mp4
\*   ffmpeg         "exit0", "nonzero" (CalledProcessError) or "raised"
\*                  (any other exception of subprocess.run)
\*   out_len        length of the file ffmpeg wrote
\*   codec          check_h264_codec's ffprobe: "h264", "other" or "failed"
\*   read           out_file.seek(0); out_file.read()
AllConvEnvs ==
  [probe_scratch : {"ok", "oserror"},
   probe_ok : BOOLEAN,
   width : Dims,
   height : Dims,
   conv_scratch : {"ok", "oserror"},
   ffmpeg : {"exit0", "nonzero", "raised"},
   out_len : TranscodedLens,
   codec : {"h264", "other", "failed"},
   read : {"ok", "oserror"}]

DefaultLen == CHOOSE n \in TranscodedLens : TRUE

\* one record per distinct course of events: what is never consulted holds
\* its default
ConvEnvs ==
  { e \in AllConvEnvs :
      /\ (e.probe_scratch = "oserror" => ~e.probe_ok /\ e.conv_scratch = "ok" /\ e.ffmpeg = "nonzero")
      /\ (~e.probe_ok => e.width = None /\ e.height = None)
      /\ (e.conv_scratch = "oserror" => e.ffmpeg = "nonzero")
      /\ (e.ffmpeg # "exit0" => e.out_len = DefaultLen /\ e.codec = "failed" /\ e.read = "ok") }

\* get_video_dimensions: (width, height), or (None, None) when anything in
\* the try block fails; the scratch file is opened and written outside it
get_video_dimensions(e) ==
  IF e.probe_scratch = "oserror" THEN [raised |-> TRUE, width |-> None, height |-> None]
  ELSE IF e.probe_ok THEN [raised |-> FALSE, width |-> e.width, height |-> e.height]
  ELSE [raised |-> FALSE, width |-> None, height |-> None]

\* check_h264_codec: True iff ffprobe succeeded and printed h264
check_h264_codec(e) == e.codec = "h264"

\* variant for C7: a square video falls to landscape
is_portrait_strict(width, height) ==
  IF width = None \/ height = None THEN TRUE ELSE height[1] > width[1]

\* lines 77-81
is_portrait(width, height) ==
  IF width = None \/ height = None THEN TRUE ELSE height[1] >= width[1]

\* lines 86-91
select_vf(portrait) == IF portrait THEN PortraitVf ELSE LandscapeVf

\* the file ffmpeg writes for this input and filter
Transcoded(input_bytes, vf, n) == Bytes(<<"ffmpeg", vf>> \o input_bytes.tag, n)

\* variant for C6: whatever is in the output file is returned
ffmpeg_failed_returns_output(input_bytes, out) == out

\* lines 129-135: both except branches return input_bytes
ffmpeg_failed(input_bytes, out) == input_bytes

\* variant for C17: output the verifier does not accept is replaced by the input
verified_result_rejects(h264, input_bytes, out) == IF h264 THEN out ELSE input_bytes

\* lines 111-128: whatever check_h264_codec answers, the output file is read
\* and returned
verified_result(h264, input_bytes, out) == out

\* variant for C15: NamedTemporaryFile(delete=False), nothing is removed
scratch_release_leaks(names) == <<>>

\* leaving a with block (lines 36, 82-83): each NamedTemporaryFile(delete=True)
\* is closed, which deletes it, on normal exit and on an exception alike
scratch_release(names) == [i \in 1..Len(names) |-> <<"scratch_close", names[i]>>]

\* entering a with block: the files are created
scratch_acquire(names) == [i \in 1..Len(names) |-> <<"scratch_open", names[i]>>]

\* what get_video_dimensions does, in order; an OSError strikes at the write
\* (lines 37-38), with the file already created
probe_events(e) ==
  scratch_acquire(<<"probe_in">>)
    \o (IF e.probe_scratch = "ok" THEN << <<"ffprobe">> >> ELSE <<>>)
    \o scratch_release(<<"probe_in">>)

\* what lines 82-135 do, in order; an OSError strikes at the write (lines 84-85)
transcode_events(e) ==
  scratch_acquire(<<"conv_in", "conv_out">>)
    \o (IF e.conv_scratch # "ok" THEN <<>>
        ELSE << <<"ffmpeg", e.ffmpeg>> >>
               \o (IF e.ffmpeg # "exit0" THEN <<>>
                   ELSE << <<"check_h264_codec", e.codec>> >>
                          \o (IF check_h264_codec(e) THEN <<>> ELSE << <<"ffprobe_debug">> >>)))
    \o scratch_release(<<"conv_out", "conv_in">>)

\* convert_to_standard_mp4: raised (the OSError of a scratch file, which no
\* try block of the function covers), or the returned bytes; events are what
\* the call did in order, then how it ended
convert_to_standard_mp4(input_bytes, e) ==
  LET d == get_video_dimensions(e)
      portrait == is_portrait(d.width, d.height)
      vf == select_vf(portrait)
      out == Transcoded(input_bytes, vf, e.out_len)
      called == << <<"convert_called">> >> \o probe_events(e)
      nothing == [raised |-> TRUE, ret |-> input_bytes, vf |-> "",
                  events |-> called \o << <<"convert_raised">> >>]
      done == called \o transcode_events(e)
  IN IF d.raised THEN nothing
     ELSE IF e.conv_scratch = "oserror"
       THEN [nothing EXCEPT !.events = done \o << <<"convert_raised">> >>]
     ELSE IF e.ffmpeg # "exit0"
       THEN [raised |-> FALSE, ret |-> ffmpeg_failed(input_bytes, out), vf |-> vf,
             events |-> done \o << <<"convert_returned">> >>]
     ELSE [raised |-> FALSE,
           ret |-> IF e.read = "ok"
                   THEN verified_result(check_h264_codec(e), input_bytes, out)
                   ELSE ffmpeg_failed(input_bytes, out),
           vf |-> vf,
           events |-> done \o << <<"convert_returned">> >>]

\* ---------------------------------------------------------------- state
VARIABLES
  pc,            \* where the running coroutine is suspended
  fn,            \* the function called: "fetch_video" or "fetch_photos"
  tiktok_url,    \* its argument
  resolved_url,  \* locals of the running call; gone when it returns
  video_id,
  tikwm_data,
  video_url,
  buffers,
  idx,           \* position of the for loop over images
  result,        \* what the call handed back to its caller
  log,           \* network requests and tool invocations made, in order
  conv,          \* the latest convert_to_standard_mp4 call: input, surroundings, outcome
  web            \* the redirects the network serves (used where resolution is studied)

vars ==
  <<pc, fn, tiktok_url, resolved_url, video_id, tikwm_data, video_url,
    buffers, idx, result, log, conv, web>>

Pending == [status |-> "pending", payload |-> None, caption |-> None]
Returned(payload, caption) == [status |-> "returned", payload |-> payload, caption |-> caption]
Propagated == [status |-> "raised", payload |-> None, caption |-> None]

NoBytes == Bytes(<<>>, 0)

NoConv ==
  [called |-> FALSE, running |-> FALSE, input |-> NoBytes,
   env |-> CHOOSE e \in ConvEnvs : e.probe_scratch = "oserror",
   raised |-> FALSE, ret |-> NoBytes, vf |-> ""]

ConvRecord(input_bytes, e) ==
  LET c == convert_to_standard_mp4(input_bytes, e)
  IN [called |-> TRUE, running |-> FALSE, input |-> input_bytes, env |-> e,
      raised |-> c.raised, ret |-> c.ret, vf |-> c.vf]

\* convert_to_standard_mp4 has been called on input_bytes and its tools are
\* at work
ConvRunning(input_bytes) == [NoConv EXCEPT !.running = TRUE, !.input = input_bytes]

\* no redirect is known
NoWeb == <<>>

Init ==
  /\ web = NoWeb
  /\ pc = "idle"
  /\ fn = "none"
  /\ tiktok_url = <<>>
  /\ resolved_url = <<>>
  /\ video_id = None
  /\ tikwm_data = None
  /\ video_url = None
  /\ buffers = <<>>
  /\ idx = 0
  /\ result = Pending
  /\ log = <<>>
  /\ conv = NoConv

\* the locals of the running call
Frame(r, v, t, u, b, i) ==
  /\ resolved_url' = r
  /\ video_id' = v
  /\ tikwm_data' = t
  /\ video_url' = u
  /\ buffers' = b
  /\ idx' = i

\* suspend at the next await
Goto(next) == pc' = next /\ result' = result

\* return (or raise) to the caller: the frame is dropped
Return(res) ==
  /\ pc' = "done"
  /\ result' = res
  /\ Frame(<<>>, None, None, None, <<>>, 0)

\* ---------------------------------------------------------- fetch_video
\* variant for C2: the failure message rides in the caption slot
fv_not_found_with_message == Returned(None, Some(<<"All download methods failed">>))

\* lines 216-217 (and 173): return None, None
fv_not_found == Returned(None, None)

\* lines 219-221: the outer handler of fetch_video
fv_outer_except == Returned(None, None)

\* variant for C10: the check is skipped
id_check_missing(v) == FALSE

\* line 171: not video_id
id_missing(v) == v = None

\* variant for C3: no inner try, the outer handler takes the exception
on_primary_exception_unhandled == "outer"

\* lines 191-194: the primary's handler prints and falls through to the fallback
on_primary_exception == "fallback"

\* control leaves the primary's block (lines 178-192) for line 194;
\* tikwm_data and video_url are read nowhere after it and are dropped here
LeavePrimary ==
  /\ Goto("fv_fallback")
  /\ Frame(resolved_url, video_id, None, None, buffers, idx)

\* an exception inside the primary's try block
PrimaryException ==
  IF on_primary_exception = "fallback" THEN LeavePrimary ELSE Return(fv_outer_except)

fetch_video_call ==
  /\ pc = "idle"
  /\ \E url \in Urls : tiktok_url' = url
  /\ fn' = "fetch_video"
  /\ Goto("fv_resolve")
  /\ UNCHANGED <<resolved_url, video_id, tikwm_data, video_url, buffers, idx, log, conv, web>>

\* lines 166-175: await resolve_redirect, then extract_video_id
fetch_video_resolve ==
  /\ pc = "fv_resolve"
  /\ \E reply \in ResolveReplies :
       LET r == resolve_redirect(tiktok_url, reply)
           v == extract_video_id(r)
       IN /\ log' = Append(log, <<"resolved">> \o r)
          /\ IF id_missing(v)
             THEN Return(fv_not_found)
             ELSE Goto("fv_tikwm") /\ Frame(r, v, tikwm_data, video_url, buffers, idx)
  /\ UNCHANGED <<fn, tiktok_url, conv, web>>

\* lines 179-182: await tikwm_api_request, pick the media URL
fetch_video_tikwm ==
  /\ pc = "fv_tikwm"
  /\ \E reply \in TikwmReplies :
       LET r == tikwm_api_request(reply)
           outcome == IF r.raised THEN "raised" ELSE IF r.ret = None THEN "none" ELSE "data"
       IN /\ log' = Append(log, <<"tikwm_post", outcome>>)
          /\ IF r.raised THEN PrimaryException
             ELSE IF r.ret = None THEN LeavePrimary
             ELSE IF r.ret[1].data.shape = "null" THEN PrimaryException
             ELSE LET u == select_video_url(r.ret[1])
                  IN IF Truthy(u)
                     THEN Goto("fv_download") /\ Frame(resolved_url, video_id, r.ret, u, buffers, idx)
                     ELSE LeavePrimary
  /\ UNCHANGED <<fn, tiktok_url, conv, web>>

\* what a GET of a media URL yields
GetReplies(from) ==
  {[raised |-> TRUE, status |-> 0, content |-> NoBytes],
   [raised |-> FALSE, status |-> 404, content |-> NoBytes]}
    \cup {[raised |-> FALSE, status |-> HttpOk, content |-> Bytes(from, n)] : n \in BodyLens}

GetOutcome(reply) ==
  IF reply.raised THEN "raised" ELSE IF reply.status = HttpOk THEN "200" ELSE "other"

\* lines 183-187: await client.get(video_url); on status 200
\* convert_to_standard_mp4 is called
fetch_video_download ==
  /\ pc = "fv_download"
  /\ \E reply \in GetReplies(<<video_url[1]>>) :
       /\ log' = Append(log, <<"download", video_url[1], GetOutcome(reply)>>)
       /\ IF reply.raised THEN conv' = conv /\ PrimaryException
          ELSE IF reply.status # HttpOk THEN conv' = conv /\ LeavePrimary
          ELSE /\ conv' = ConvRunning(reply.content)
               /\ Goto("fv_convert")
               /\ UNCHANGED <<resolved_url, video_id, tikwm_data, video_url, buffers, idx>>
  /\ UNCHANGED <<fn, tiktok_url, web>>

\* lines 187-190: convert_to_standard_mp4 comes back (its subprocess.run calls
\* have no timeout); the primary's result is returned
fetch_video_convert ==
  /\ pc = "fv_convert"
  /\ \E e \in ConvEnvs :
       LET c == convert_to_standard_mp4(conv.input, e)
       IN /\ log' = log \o c.events
          /\ conv' = ConvRecord(conv.input, e)
          /\ IF c.raised THEN PrimaryException
             ELSE Return(Returned(Some(BytesIO(c.ret)), Some(tikwm_caption(tikwm_data[1]))))
  /\ UNCHANGED <<fn, tiktok_url, web>>

\* lines 195-210: await client.get(api_url); an accepted body goes to
\* convert_to_standard_mp4
fetch_video_fallback ==
  /\ pc = "fv_fallback"
  /\ \E reply \in GetReplies(<<"api.tiktokv.com">> \o video_id[1]) :
       /\ log' = Append(log, <<"api_get", GetOutcome(reply), reply.content.len>>)
       /\ IF reply.raised \/ ~api_accepts(reply.status, reply.content)
          THEN conv' = conv /\ Return(fv_not_found)
          ELSE /\ conv' = ConvRunning(reply.content)
               /\ Goto("fb_convert")
               /\ UNCHANGED <<resolved_url, video_id, tikwm_data, video_url, buffers, idx>>
  /\ UNCHANGED <<fn, tiktok_url, web>>

\* lines 210-217: convert_to_standard_mp4 comes back; the fallback's result
\* is returned, or (None, None) when the conversion raised
fetch_video_fallback_convert ==
  /\ pc = "fb_convert"
  /\ \E e \in ConvEnvs :
       LET c == convert_to_standard_mp4(conv.input, e)
       IN /\ log' = log \o c.events
          /\ conv' = ConvRecord(conv.input, e)
          /\ IF c.raised THEN Return(fv_not_found)
             ELSE Return(Returned(Some(BytesIO(c.ret)), Some(api_caption(video_id))))
  /\ UNCHANGED <<fn, tiktok_url, web>>

\* --------------------------------------------------------- fetch_photos
\* line 243
fp_not_found == Returned(None, None)

\* variant for C8: the handler lets the exception through
fp_outer_except_reraises == Propagated

\* lines 244-246: the outer handler of fetch_photos
fp_outer_except == Returned(None, None)

\* images and isinstance(images, list)
images_usable(images) == images.shape = "list" /\ images.items # <<>>

\* lines 45, 62, 108, 120: subprocess.run is called without a timeout, so
\* while the child (ffprobe or ffmpeg) does not exit the call does not return;
\* nothing else in the request is running that could end the wait
subprocess_never_returns ==
  /\ pc \in {"fv_convert", "fb_convert"}
  /\ pc' = "subprocess_wait"
  /\ result' = result
  /\ log' = Append(log, <<"subprocess_wait">>)
  /\ UNCHANGED <<fn, tiktok_url, resolved_url, video_id, tikwm_data, video_url, buffers, idx, conv, web>>

fetch_photos_call ==
  /\ pc = "idle"
  /\ \E url \in Urls : tiktok_url' = url
  /\ fn' = "fetch_photos"
  /\ Goto("fp_resolve")
  /\ UNCHANGED <<resolved_url, video_id, tikwm_data, video_url, buffers, idx, log, conv, web>>

\* line 227: await resolve_redirect
fetch_photos_resolve ==
  /\ pc = "fp_resolve"
  /\ \E reply \in ResolveReplies :
       LET r == resolve_redirect(tiktok_url, reply)
       IN /\ log' = Append(log, <<"resolved">> \o r)
          /\ Goto("fp_tikwm")
          /\ Frame(r, video_id, tikwm_data, video_url, buffers, idx)
  /\ UNCHANGED <<fn, tiktok_url, conv, web>>

\* lines 230-235: await tikwm_api_request, read the images list
fetch_photos_tikwm ==
  /\ pc = "fp_tikwm"
  /\ \E reply \in TikwmReplies :
       LET r == tikwm_api_request(reply)
           outcome == IF r.raised THEN "raised" ELSE IF r.ret = None THEN "none" ELSE "data"
       IN /\ log' = Append(log, <<"tikwm_post", outcome>>)
          /\ IF r.raised THEN Return(fp_outer_except)
             ELSE IF r.ret = None THEN Return(fp_not_found)
             ELSE IF r.ret[1].data.shape = "null" THEN Return(fp_outer_except)
             ELSE IF images_usable(data_of(r.ret[1]).images)
               THEN Goto("fp_image") /\ Frame(resolved_url, video_id, r.ret, video_url, <<>>, 1)
             ELSE Return(fp_not_found)
  /\ UNCHANGED <<fn, tiktok_url, conv, web>>

\* lines 236-243: one await client.get(img_url) of the loop; after the last
\* one, the return
fetch_photos_image ==
  /\ pc = "fp_image"
  /\ LET images == data_of(tikwm_data[1]).images.items
         img_url == images[idx]
     IN \E reply \in GetReplies(img_url) :
          LET got == IF reply.status = HttpOk
                     THEN Append(buffers, BytesIO(reply.content))
                     ELSE buffers
          IN /\ log' = Append(log, <<"image_get", idx, GetOutcome(reply)>>)
             /\ IF reply.raised THEN Return(fp_outer_except)
                ELSE IF idx < Len(images)
                  THEN Goto("fp_image")
                       /\ Frame(resolved_url, video_id, tikwm_data, video_url, got, idx + 1)
                ELSE IF got # <<>>
                  THEN Return(Returned(Some(got), Some(photo_caption(tikwm_data[1]))))
                ELSE Return(fp_not_found)
  /\ UNCHANGED <<fn, tiktok_url, conv, web>>

\* ------------------------------------------------------------------ spec
Next ==
  \/ fetch_video_call
  \/ fetch_video_resolve
  \/ fetch_video_tikwm
  \/ fetch_video_download
  \/ fetch_video_convert
  \/ fetch_video_fallback
  \/ fetch_video_fallback_convert
  \/ subprocess_never_returns
  \/ fetch_photos_call
  \/ fetch_photos_resolve
  \/ fetch_photos_tikwm
  \/ fetch_photos_image

Spec == Init /\ [][Next]_vars

TypeOK ==
  /\ pc \in {"idle", "fv_resolve", "fv_tikwm", "fv_download", "fv_convert", "fv_fallback", "fb_convert",
              "subprocess_wait",
              "fp_resolve", "fp_tikwm", "fp_image", "done"}
  /\ fn \in {"none", "fetch_video", "fetch_photos"}
  /\ result.status \in {"pending", "returned", "raised"}
  /\ (pc = "done") = (result.status # "pending")

\* ------------------------------------------------ resolution on its own
\* resolve_redirect called twice in a row, the second time on its own
\* result, against a network whose redirects do not change in between

\* the URLs of the network
WebUrls == { p \o <<"7">> : p \in UrlPrefixes }

\* each URL is served as it is (None) or redirects to another URL
Webs == { w \in [WebUrls -> {None} \cup {Some(u) : u \in WebUrls}] :
            \A u \in WebUrls : w[u] # Some(u) }

\* variant for C13: the first Location is reported, later hops are not followed
follow_one_hop(w, url, hops) ==
  IF w[url] = None THEN [raised |-> FALSE, url |-> url]
  ELSE [raised |-> FALSE, url |-> w[url][1]]

\* client.get(url) with follow_redirects=True (lines 12-15): the URL that is
\* finally served, or TooManyRedirects past the hop limit
RECURSIVE follow(_, _, _)
follow(w, url, hops) ==
  IF w[url] = None THEN [raised |-> FALSE, url |-> url]
  ELSE IF hops = 0 THEN [raised |-> TRUE, url |-> <<>>]
  ELSE follow(w, w[url][1], hops - 1)

\* what the GET yields: a network failure (timeout, DNS, reset), or the end
\* of the redirect chain
WebReplies(w, url) ==
  {[raised |-> TRUE, url |-> <<>>], follow(w, url, MaxHops)}

InitResolve ==
  /\ web \in Webs
  /\ pc = "idle"
  /\ fn = "none"
  /\ tiktok_url = <<>>
  /\ resolved_url = <<>>
  /\ video_id = None
  /\ tikwm_data = None
  /\ video_url = None
  /\ buffers = <<>>
  /\ idx = 0
  /\ result = Pending
  /\ log = <<>>
  /\ conv = NoConv

\* resolve_redirect(url) is called
resolve_call ==
  /\ pc = "idle"
  /\ \E url \in WebUrls :
       /\ tiktok_url' = url
       /\ log' = Append(log, <<"call">> \o url)
  /\ fn' = "resolve_redirect"
  /\ pc' = "rr_get"
  /\ UNCHANGED <<resolved_url, video_id, tikwm_data, video_url, buffers, idx, result, conv, web>>

\* lines 13-17: await client.get(url) ends; the call returns
resolve_get ==
  /\ pc = "rr_get"
  /\ \E reply \in WebReplies(web, tiktok_url) :
       LET r == resolve_redirect(tiktok_url, reply)
       IN /\ resolved_url' = r
          /\ log' = Append(log, <<IF reply.raised THEN "raised" ELSE "ok">> \o r)
  /\ pc' = "rr_returned"
  /\ UNCHANGED <<fn, tiktok_url, video_id, tikwm_data, video_url, buffers, idx, result, conv, web>>

\* resolve_redirect is called again, on what it returned
resolve_again ==
  /\ pc = "rr_returned"
  /\ Len(log) = 2
  /\ tiktok_url' = resolved_url
  /\ log' = Append(log, <<"call">> \o resolved_url)
  /\ pc' = "rr_get"
  /\ UNCHANGED <<fn, resolved_url, video_id, tikwm_data, video_url, buffers, idx, result, conv, web>>

NextResolve ==
  \/ resolve_call
  \/ resolve_get
  \/ resolve_again

SpecResolve == InitResolve /\ [][NextResolve]_vars

\* ------------------------------------------------- bot.py handle_message
\* one message handled from its arrival to the end of the handler; the calls
\* of fetch_photos and fetch_video run the steps above. The Telegram calls
\* of a stretch (reply_text, edit_text, sleep, delete) are taken with the
\* stretch, each either completing or raising.

\* text.strip()
RECURSIVE lstrip(_)
lstrip(t) == IF t # <<>> /\ Head(t) = " " THEN lstrip(Tail(t)) ELSE t

Reverse(t) == [i \in 1..Len(t) |-> t[Len(t) + 1 - i]]

strip(t) == Reverse(lstrip(Reverse(lstrip(t))))

\* "tiktok.com" in text
contains_tiktok(text) == \E i \in 1..Len(text) : text[i] = "tiktok.com"

\* the texts of the messages: without the host name, and links with and
\* without a video identifier, with and without surrounding blanks
BotLinks == { <<"tiktok.com", "/", "video", "/", "7">>, <<"tiktok.com", "/", "x", "/">> }

BotTexts ==
  { <<"hello">>, <<" ">>, <<"/", "video", "/", "7">> }
    \cup BotLinks
    \cup { <<" ">> \o u \o <<" ">> : u \in BotLinks }

\* update.message.text: None, or a text
BotUpdates == {None} \cup { Some(t) : t \in BotTexts }

\* variant for C20: the size of the video is not looked at
too_large_never(file_size) == FALSE

\* line 106: file_size > max_size
too_large(file_size) == file_size > max_size

\* what the handler itself did, as opposed to the functions it called
BotEventKinds ==
  {"reply_text", "edit_text", "fetch_photos", "fetch_photos_returned",
   "fetch_video", "fetch_video_returned", "reply_photo", "reply_video"}

BotLog(l) == SelectSeq(l, LAMBDA ev : ev[1] \in BotEventKinds)

\* lines 63-82: the message arrives; without a text, or without tiktok.com in
\* it, a reply is sent and the handler returns
handle_message_call ==
  /\ pc = "idle"
  /\ fn' = "handle_message"
  /\ result' = result
  /\ \E update \in BotUpdates : \E sent \in BOOLEAN :
       IF update = None
       THEN /\ tiktok_url' = <<>>
            /\ log' = Append(log, <<"reply_text", "need_text">>)
            /\ pc' = "hm_done"
       ELSE LET text == strip(update[1])
            IN /\ tiktok_url' = text
               /\ IF ~contains_tiktok(text)
                  THEN /\ log' = Append(log, <<"reply_text", "invalid_link">>)
                       /\ pc' = "hm_done"
                  ELSE /\ log' = Append(log, <<"reply_text", "processing">>)
                       /\ pc' = IF sent THEN "hm_try" ELSE "hm_done"
  /\ UNCHANGED <<resolved_url, video_id, tikwm_data, video_url, buffers, idx, conv, web>>

\* lines 84-87: inside the try block fetch_photos(text) is called first
handle_message_try ==
  /\ pc = "hm_try"
  /\ \E edited \in BOOLEAN :
       IF edited
       THEN /\ fn' = "fetch_photos"
            /\ log' = Append(log, <<"fetch_photos">>)
            /\ pc' = "fp_resolve"
       ELSE /\ fn' = fn
            /\ log' = log
            /\ pc' = "hm_except"
  /\ result' = result
  /\ UNCHANGED <<tiktok_url, resolved_url, video_id, tikwm_data, video_url, buffers, idx, conv, web>>

\* lines 87-89 and 100-102: fetch_photos has returned; with images the photo
\* upload begins, without any fetch_video(text) is called
handle_message_photos_returned ==
  /\ pc = "done"
  /\ fn = "fetch_photos"
  /\ LET photo_buffers == result.payload
         n == IF photo_buffers = None THEN 0 ELSE Len(photo_buffers[1])
         seen == Append(BotLog(log), <<"fetch_photos_returned", n>>)
     IN \E edited \in BOOLEAN :
          IF ~edited
          THEN /\ fn' = "handle_message"
               /\ pc' = "hm_except"
               /\ log' = seen
               /\ result' = result
               /\ buffers' = buffers
          ELSE IF photo_buffers # None /\ photo_buffers[1] # <<>>
          THEN /\ fn' = "handle_message"
               /\ pc' = "hm_reply_photo"
               /\ log' = seen
               /\ result' = result
               /\ buffers' = photo_buffers[1]
          ELSE /\ fn' = "fetch_video"
               /\ pc' = "fv_resolve"
               /\ log' = Append(seen, <<"fetch_video">>)
               /\ result' = Pending
               /\ buffers' = buffers
  /\ UNCHANGED <<tiktok_url, resolved_url, video_id, tikwm_data, video_url, idx, conv, web>>

\* lines 90-94: await reply_photo for the image at index idx of enumerate
handle_message_reply_photo ==
  /\ pc = "hm_reply_photo"
  /\ \E sent \in BOOLEAN :
       /\ log' = Append(log, <<"reply_photo", idx, IF sent THEN "ok" ELSE "raised">>)
       /\ IF ~sent THEN pc' = "hm_except" /\ idx' = idx
          ELSE IF idx + 1 < Len(buffers) THEN pc' = "hm_reply_photo" /\ idx' = idx + 1
          ELSE pc' = "hm_finish" /\ idx' = idx
  /\ UNCHANGED <<fn, tiktok_url, resolved_url, video_id, tikwm_data, video_url, buffers, result, conv, web>>

\* lines 102-109 and 118-119: fetch_video has returned; a BytesIO object is
\* truthy whatever it holds
handle_message_video_returned ==
  /\ pc = "done"
  /\ fn = "fetch_video"
  /\ fn' = "handle_message"
  /\ conv' = NoConv
  /\ LET video_bytes == result.payload
         seen == Append(BotLog(log), <<"fetch_video_returned">>)
     IN \E edited \in BOOLEAN :
          IF video_bytes = None
          THEN /\ log' = Append(seen, <<"edit_text", "failed">>)
               /\ pc' = IF edited THEN "hm_done" ELSE "hm_except"
          ELSE IF too_large(video_bytes[1].buf.len)
          THEN /\ log' = Append(seen, <<"edit_text", "too_large">>)
               /\ pc' = IF edited THEN "hm_done" ELSE "hm_except"
          ELSE /\ log' = seen
               /\ pc' = IF edited THEN "hm_reply_video" ELSE "hm_except"
  /\ result' = result
  /\ UNCHANGED <<tiktok_url, resolved_url, video_id, tikwm_data, video_url, buffers, idx, web>>

\* lines 110-114: await reply_video
handle_message_reply_video ==
  /\ pc = "hm_reply_video"
  /\ \E sent \in BOOLEAN :
       /\ log' = Append(log, <<"reply_video", result.payload[1].buf.len,
                                IF sent THEN "ok" ELSE "raised">>)
       /\ pc' = IF sent THEN "hm_finish" ELSE "hm_except"
  /\ UNCHANGED <<fn, tiktok_url, resolved_url, video_id, tikwm_data, video_url, buffers, idx, result, conv, web>>

\* lines 95-98 and 115-117: the closing edit_text, sleep and delete
handle_message_finish ==
  /\ pc = "hm_finish"
  /\ \E done \in BOOLEAN : pc' = IF done THEN "hm_done" ELSE "hm_except"
  /\ UNCHANGED <<fn, tiktok_url, resolved_url, video_id, tikwm_data, video_url, buffers, idx, result, log, conv, web>>

\* lines 120-122: the handler of the try block reports the error; if this
\* edit_text raises too the exception leaves handle_message
handle_message_except ==
  /\ pc = "hm_except"
  /\ log' = Append(log, <<"edit_text", "error">>)
  /\ pc' = "hm_done"
  /\ UNCHANGED <<fn, tiktok_url, resolved_url, video_id, tikwm_data, video_url, buffers, idx, result, conv, web>>

NextBot ==
  \/ handle_message_call
  \/ handle_message_try
  \/ fetch_photos_resolve
  \/ fetch_photos_tikwm
  \/ fetch_photos_image
  \/ handle_message_photos_returned
  \/ handle_message_reply_photo
  \/ fetch_video_resolve
  \/ fetch_video_tikwm
  \/ fetch_video_download
  \/ fetch_video_convert
  \/ fetch_video_fallback
  \/ fetch_video_fallback_convert
  \/ subprocess_never_returns
  \/ handle_message_video_returned
  \/ handle_message_reply_video
  \/ handle_message_finish
  \/ handle_message_except

SpecBot == Init /\ [][NextBot]_vars

\* ============================================================== claims
\* positions of the log's events of one kind
At(head) == { i \in 1..Len(log) : log[i][1] = head }

Count(head) == Cardinality(At(head))

\* the URL resolve_redirect returned in this call
ResolvedInLog == Tail(log[1])

\* no rule of the pattern list matches anywhere in url
NoRuleMatches(url) ==
  \A k \in 1..Len(patterns) : \A i \in 1..Len(url) : ~MatchAt(patterns[k], url, i)

\* the primary's metadata had code 0 and a media URL, and its download
\* answered HTTP 200
PrimaryDownloaded == \E i \in At("download") : log[i][3] = "200"

\* the primary's pipeline handed bytes back: its conversion returned
PrimaryDelivered ==
  \E i \in At("download") : \E j \in At("convert_returned") :
    /\ log[i][3] = "200"
    /\ i < j
    /\ \A k \in At("api_get") : j < k

\* the bytes a result was made from: the transcoder's tag is peeled off
Origin(b) == IF b.tag # <<>> /\ b.tag[1] = "ffmpeg" THEN SubSeq(b.tag, 3, Len(b.tag)) ELSE b.tag

IsTikwmCaption(c) == c # None /\ c[1][1] = "Downloaded via TikWM ("

VideoDone == fn = "fetch_video" /\ pc = "done"
PhotosDone == fn = "fetch_photos" /\ pc = "done"

\* C1: whenever the primary's metadata has code 0, offers a media URL and the
\* download answers 200, the fallback provider is never contacted and the
\* returned result is the primary's.
C1_ShortCircuit ==
  (fn = "fetch_video" /\ PrimaryDownloaded) =>
     /\ Count("api_get") = 0
     /\ (pc = "done" => IsTikwmCaption(result.caption))

\* every provider attempt of the call ended without an asset
AllAttemptsFailed ==
  IF fn = "fetch_video" THEN Count("convert_returned") = 0
  ELSE \/ \A i \in At("image_get") : log[i][3] # "200"
       \/ \E i \in At("image_get") : log[i][3] = "raised"

\* C2: a finished call returns payload and caption both present or both
\* absent, and returns (None, None) when every provider attempt failed.
C2_NotFoundNeverPartial ==
  pc = "done" =>
     /\ (result.payload = None) = (result.caption = None)
     /\ (AllAttemptsFailed => result = Returned(None, None))

\* both providers were tried, both failed, and the call returned (None, None)
C2_Witness ==
  /\ VideoDone
  /\ Count("tikwm_post") = 1
  /\ Count("api_get") = 1
  /\ AllAttemptsFailed
  /\ result = Returned(None, None)

\* C3: no provider is attempted twice, the fallback is attempted only after
\* the primary, and a finished video call whose identifier was extracted and
\* whose primary attempt failed in any way has attempted the fallback once.
C3_FailureIsolationNoRetry ==
  fn = "fetch_video" =>
     /\ Count("tikwm_post") <= 1
     /\ Count("download") <= 1
     /\ Count("api_get") <= 1
     /\ \A j \in At("api_get") : \E i \in At("tikwm_post") : i < j
     /\ \A j \in At("download") : \E i \in At("tikwm_post") : i < j
     /\ (pc = "done" /\ ~NoRuleMatches(ResolvedInLog) /\ ~PrimaryDelivered
           => Count("tikwm_post") = 1 /\ Count("api_get") = 1)

\* the primary's POST raised (timeout, or a body that is no JSON object) and
\* the fallback was then attempted once
C3_Witness ==
  /\ VideoDone
  /\ \E i \in At("tikwm_post") : log[i][2] = "raised"
  /\ Count("api_get") = 1

\* C4: a returned payload never holds a zero-length byte string.
C4_NoEmptyPayload ==
  (pc = "done" /\ result.payload # None) =>
     IF fn = "fetch_video"
     THEN result.payload[1].buf.len > 0
     ELSE \A k \in 1..Len(result.payload[1]) : result.payload[1][k].buf.len > 0

\* C5: once the primary's download answered 200, the finished call returns
\* bytes made from that download, whatever fails during normalization.
C5_NormalizationFailureNonFatal ==
  (VideoDone /\ PrimaryDownloaded) =>
     /\ result.payload # None
     /\ Origin(result.payload[1].buf)[1] \in {HdUrl, PlayUrl}

ProbedWidth == IF conv.env.probe_ok THEN conv.env.width ELSE None
ProbedHeight == IF conv.env.probe_ok THEN conv.env.height ELSE None
ProbeUnknown == ProbedWidth = None \/ ProbedHeight = None

\* C7: the filter chosen is the portrait one when the probe is Unknown or
\* height >= width, and the landscape one exactly when width > height.
C7_DefaultToPortrait ==
  (conv.called /\ conv.vf # "") =>
     /\ conv.vf \in {PortraitVf, LandscapeVf}
     /\ (ProbeUnknown => conv.vf = PortraitVf)
     /\ (~ProbeUnknown /\ ProbedHeight[1] >= ProbedWidth[1] => conv.vf = PortraitVf)
     /\ (conv.vf = LandscapeVf) = (~ProbeUnknown /\ ProbedWidth[1] > ProbedHeight[1])

\* a square video (height = width) was given the portrait filter
C7_Witness ==
  /\ conv.called
  /\ ~ProbeUnknown
  /\ ProbedHeight[1] = ProbedWidth[1]
  /\ conv.vf = PortraitVf

\* C8: no call ends by raising; a finished call has returned a value.
C8_NothingEscapes ==
  /\ result.status # "raised"
  /\ (pc = "done" => result.status = "returned")

\* an image download raised inside fetch_photos and the call returned (None, None)
C8_Witness ==
  /\ PhotosDone
  /\ \E i \in At("image_get") : log[i][3] = "raised"
  /\ result = Returned(None, None)

\* C9: the primary downloads hdplay when one is offered and play otherwise;
\* the caption names the provider the returned bytes came from, with the
\* identifier for the fallback, and says HD exactly for the hdplay download.
C9_QualityAndProvenance ==
  /\ pc = "fv_download" =>
       LET d == tikwm_data[1].data
       IN /\ (Truthy(d.hdplay) => video_url = d.hdplay)
          /\ (~Truthy(d.hdplay) => video_url = d.play)
  /\ (VideoDone /\ result.payload # None) =>
       LET from == Origin(result.payload[1].buf)
           c == result.caption[1]
       IN /\ from[1] \in {HdUrl, PlayUrl, "api.tiktokv.com"}
          /\ (from[1] = HdUrl => c[1] = "Downloaded via TikWM (" /\ c[2] = "HD")
          /\ (from[1] = PlayUrl => c[1] = "Downloaded via TikWM (" /\ c[2] = "Standard")
          /\ (from[1] = "api.tiktokv.com" =>
                /\ c = <<"Downloaded via TikTok API (ID: ">> \o Tail(from) \o <<")">>
                /\ Some(Tail(from)) = extract_video_id(ResolvedInLog))

\* the hdplay URL was downloaded and the caption says HD
C9_Witness ==
  /\ VideoDone
  /\ result.payload # None
  /\ Origin(result.payload[1].buf) = <<HdUrl>>
  /\ result.caption[1][2] = "HD"

\* C10: when no pattern rule matches the resolved URL, the video call is
\* finished with (None, None) and the only request made was the resolution.
C10_IdentifierNotFound ==
  (fn = "fetch_video" /\ Len(log) >= 1 /\ NoRuleMatches(ResolvedInLog)) =>
     /\ pc = "done"
     /\ result = Returned(None, None)
     /\ Len(log) = 1

\* a URL with digits but no rule match ended the call at once
C10_Witness ==
  /\ VideoDone
  /\ ResolvedInLog = <<"/", "x", "/", "7">>
  /\ result = Returned(None, None)
  /\ Len(log) = 1

\* the images fetched with status 200, by their position in the images list
FetchedOk == { log[i][2] : i \in { j \in At("image_get") : log[j][3] = "200" } }

\* C11: fetch_photos returns a payload exactly when at least one image of a
\* non-empty images list was fetched with status 200; the payload then holds
\* exactly those images, in the list's order, under one caption.
C11_PhotoSetResult ==
  PhotosDone =>
     /\ (result.payload # None) = (FetchedOk # {})
     /\ (result.payload # None =>
           LET got == result.payload[1]
           IN /\ Len(got) = Cardinality(FetchedOk)
              /\ \A k \in 1..Len(got) : got[k].buf.tag[2] \in FetchedOk
              /\ \A k \in 1..Len(got) : \A l \in 1..Len(got) :
                   k < l => got[k].buf.tag[2] < got[l].buf.tag[2]
              /\ result.caption # None
              /\ result.caption[1][1] = "Downloaded TikTok Photo Post - ")

\* the calls of resolve_redirect that have returned, and for the k-th one its
\* argument, how its GET ended, and what it returned
ResolveCalls == 1..(Len(log) \div 2)
ResolveIn(k) == Tail(log[2 * k - 1])
ResolveHow(k) == log[2 * k][1]
ResolveOut(k) == Tail(log[2 * k])

\* u is what the network finally serves for url within the hop limit
FinallyServed(url, u) ==
  /\ web[u] = None
  /\ \E n \in 0..MaxHops : \E path \in [1..(n + 1) -> WebUrls] :
       /\ path[1] = url
       /\ path[n + 1] = u
       /\ \A i \in 1..n : web[path[i]] = Some(path[i + 1])

\* C12: resolve_redirect returns the finally served URL when its GET
\* completes, and its input unchanged when the GET fails in any way (network
\* failure or hop limit exceeded).
C12_ResolveBestEffort ==
  \A k \in ResolveCalls :
     /\ (ResolveHow(k) = "ok" => FinallyServed(ResolveIn(k), ResolveOut(k)))
     /\ (ResolveHow(k) = "raised" => ResolveOut(k) = ResolveIn(k))

\* the GET of a redirecting URL failed and the input came back unchanged
C12_Witness ==
  \E k \in ResolveCalls :
     /\ ResolveHow(k) = "raised"
     /\ web[ResolveIn(k)] # None
     /\ ResolveOut(k) = ResolveIn(k)

InFlight == fn # "none" /\ result = Pending

\* C14: no suspension point can hold a request for ever: whatever the step a
\* request in flight is waiting at, the wait comes to an end (with an answer,
\* or with a failure such as a timeout), so the request can always take its
\* next step towards returning a result or NotFound.
C14_BoundedProgress ==
  InFlight => ENABLED Next

\* the positions of the log where a call of convert_to_standard_mp4 ended
ConvertEnds == At("convert_returned") \cup At("convert_raised")

\* the scratch file created at position i is deleted between i and j
ReleasedBetween(i, j) ==
  \E k \in (i + 1)..(j - 1) :
     log[k][1] = "scratch_close" /\ log[k][2] = log[i][2]

\* C15: every scratch file created by get_video_dimensions or
\* convert_to_standard_mp4 is deleted before the invocation that created it
\* ends, on every exit path (return, probe failure, transcoder failure,
\* exception); the probe's file is deleted before the transcode's are created.
C15_ScratchLifetime ==
  \A i \in At("scratch_open") :
     /\ \A j \in ConvertEnds : j > i => ReleasedBetween(i, j)
     /\ (log[i][2] = "probe_in") =>
           \A j \in At("scratch_open") :
              (j > i /\ log[j][2] # "probe_in") => ReleasedBetween(i, j)

\* after both of its scratch files were created, a conversion ended with the
\* exception of a failed write, and the files had been deleted
C15_Witness ==
  \E i \in At("scratch_open") : \E j \in At("convert_raised") :
     /\ log[i][2] = "conv_out"
     /\ j > i
     /\ ReleasedBetween(i, j)

\* the provider attempts of the call: metadata request, download, direct API
ProviderAttempts == At("tikwm_post") \cup At("download") \cup At("api_get")

\* the step at position j obtained a body that the code hands to normalization
DownloadSucceeded(j) ==
  \/ log[j][1] = "download" /\ log[j][3] = "200"
  \/ log[j][1] = "api_get" /\ log[j][2] = "200" /\ log[j][3] > MinFallbackLen

\* C16: within one video request resolution precedes every provider attempt,
\* every normalization directly follows a successful download, the codec
\* check follows only a transcode that exited 0, and no provider attempt
\* happens after a normalization has started.
C16_StageOrdering ==
  fn = "fetch_video" =>
     /\ \A j \in ProviderAttempts : \E i \in At("resolved") : i < j
     /\ \A j \in At("convert_called") : j > 1 /\ DownloadSucceeded(j - 1)
     /\ \A j \in At("check_h264_codec") :
          log[j - 1][1] = "ffmpeg" /\ log[j - 1][2] = "exit0"
     /\ \A i \in At("convert_called") : \A j \in ProviderAttempts : j < i

\* the direct API answered 200 with more than 1000 bytes
FallbackAccepted ==
  \E i \in At("api_get") : log[i][2] = "200" /\ log[i][3] > MinFallbackLen

\* the call returned a payload under the direct API's caption
FallbackResult ==
  /\ result.payload # None
  /\ Origin(result.payload[1].buf)[1] = "api.tiktokv.com"
  /\ result.caption # None
  /\ result.caption[1][1] = "Downloaded via TikTok API (ID: "

\* C18: a call that attempted the direct API returns the fallback's result
\* exactly when the answer had status 200 and more than 1000 bytes, and
\* (None, None) otherwise; in particular a 200 answer of 1500 bytes after a
\* failed primary yields the fallback's result.
C18_FallbackAcceptance ==
  (VideoDone /\ Count("api_get") = 1) =>
     /\ FallbackAccepted => FallbackResult
     /\ ~FallbackAccepted => result = fv_not_found
     /\ (\E i \in At("api_get") : log[i][2] = "200" /\ log[i][3] = MinFallbackLen + 500)
           => FallbackResult

\* the latest conversion ran a transcoder that exited 0 and read its output
TranscodeSucceeded ==
  /\ conv.called
  /\ ~conv.raised
  /\ conv.env.ffmpeg = "exit0"
  /\ conv.env.read = "ok"

\* C17: after a successful transcode convert_to_standard_mp4 returns the
\* transcoder's output, the same whether the codec check reports H.264,
\* reports another codec, or fails itself.
C17_VerificationObservational ==
  TranscodeSucceeded =>
     \A codec \in {"h264", "other", "failed"} :
        /\ conv.ret = Transcoded(conv.input, conv.vf, conv.env.out_len)
        /\ convert_to_standard_mp4(conv.input, [conv.env EXCEPT !.codec = codec]).ret = conv.ret

\* the codec check did not report H.264, and the transcoder's output came back
C17_Witness ==
  /\ TranscodeSucceeded
  /\ conv.env.codec # "h264"
  /\ Count("ffprobe_debug") > 0
  /\ conv.ret = Transcoded(conv.input, conv.vf, conv.env.out_len)

\* C20: fetch_video is called only after fetch_photos was called and returned
\* no images; each is called at most once; a message gets photo uploads or a
\* video upload, never both; no video of more than 50 MB is uploaded; and a
\* message without tiktok.com in its text causes no retrieval.
C20_PhotoFirstDispatch ==
  /\ \A j \in At("fetch_video") :
        /\ \E i \in At("fetch_photos") : i < j
        /\ \E i \in At("fetch_photos_returned") : i < j /\ log[i][2] = 0
  /\ \A j \in At("fetch_photos") : contains_tiktok(tiktok_url)
  /\ Count("fetch_photos") <= 1
  /\ Count("fetch_video") <= 1
  /\ Count("reply_video") <= 1
  /\ ~(Count("reply_photo") > 0 /\ Count("reply_video") > 0)
  /\ \A j \in At("reply_photo") : Count("fetch_video") = 0
  /\ \A j \in At("reply_video") : log[j][2] <= max_size
  /\ (fn # "none" /\ ~contains_tiktok(tiktok_url)) =>
        /\ pc = "hm_done"
        /\ Count("fetch_photos") = 0
        /\ Count("fetch_video") = 0
        /\ Count("resolved") = 0

\* fetch_photos returned no images, fetch_video returned a video of more
\* than 50 MB, and the handler ended without uploading it
C20_Witness ==
  /\ pc = "hm_done"
  /\ \E i \in At("fetch_photos_returned") : log[i][2] = 0
  /\ \E i \in At("edit_text") : log[i][2] = "too_large"
  /\ result.payload # None
  /\ result.payload[1].buf.len > max_size
  /\ Count("reply_video") = 0

====
